---- MODULE Spec2Model ----
(***************************************************************************)
(* Minimum-attack N-Queens as a binary integer program (src/main.py).      *)
(* The model follows main(): get_n reads N, NQueensBIP builds the binary   *)
(* variables, the cardinality and attack-linkage constraints and the       *)
(* objective, the solver optimizes, solve() reports and print_solution()   *)
(* reads the assignment back.                                              *)
(*                                                                         *)
(* A constraint is a record                                                *)
(*    [ycoef, ycell, xs, sense, rhs]                                       *)
(* standing for   ycoef * y[ycell]  >=  sum of x[c] for c in xs   (">=")   *)
(* or             sum of x[c] for c in xs  ==  rhs                ("==").  *)
(* Cells are pairs <<i, j>> with 0 <= i, j < n_dim, as range(n_dim) gives. *)
(***************************************************************************)
EXTENDS Integers, Sequences, FiniteSets, TLC

\* Largest board size whose digit is offered on the input line.
MaxN == 3

VARIABLES
    pc,           \* position in main()
    out,          \* last message written to standard output
    line,         \* the last line input() returned
    n_dim,        \* get_n's local n_dim, then NQueensBIP.n_dim
    disjunctive,  \* NQueensBIP._disjunctive
    x_vars,       \* cells for which an x variable has been added
    y_vars,       \* cells for which a y variable has been added
    constraints,  \* the model's constraints, in the order addConstr was called
    objective,    \* the cells whose y is summed in the objective, in order
    status,       \* the model's Status attribute after optimize()
    hasSol,       \* TRUE iff the solver holds an assignment (SolCount > 0)
    solX,         \* cells with x = 1 in that assignment
    solY,         \* cells with y = 1 in that assignment
    printed       \* the grids print_solution wrote, or <<>> before it ran

vars == <<pc, out, line, n_dim, disjunctive, x_vars, y_vars, constraints, objective,
          status, hasSol, solX, solY, printed>>

----------------------------------------------------------------------------
(* Input lines and int()                                                   *)

Digits == <<"0", "1", "2", "3", "4", "5", "6", "7", "8", "9">>

DigitChars == {Digits[d] : d \in 1..10}

DigitValue(ch) == (CHOOSE d \in 1..10 : Digits[d] = ch) - 1

\* The lines offered to input(): one digit per board size up to MaxN, zero,
\* signed and padded numbers, and lines int() rejects.
InputLines ==
    {<<Digits[k + 1]>> : k \in 0..MaxN}
    \cup {<<"-", "1">>, <<"-", "0">>, <<"+", "2">>, <<" ", "1", " ">>, <<"0", "2">>,
          <<>>, <<"a">>, <<"1", ".", "5">>, <<"-">>, <<" ">>, <<"1", " ", "1">>}

RECURSIVE Strip(_)
\* str.strip() as int() applies it: leading and trailing blanks removed.
Strip(s) ==
    IF s = <<>> THEN s
    ELSE IF Head(s) = " " THEN Strip(Tail(s))
    ELSE IF s[Len(s)] = " " THEN Strip(SubSeq(s, 1, Len(s) - 1))
    ELSE s

RECURSIVE DecimalValue(_)
DecimalValue(ds) ==
    IF ds = <<>> THEN 0
    ELSE 10 * DecimalValue(SubSeq(ds, 1, Len(ds) - 1)) + DigitValue(ds[Len(ds)])

\* The digits of a stripped literal, after its optional sign.
Unsigned(s) == IF s # <<>> /\ Head(s) \in {"+", "-"} THEN Tail(s) ELSE s

\* int(text) raises ValueError unless the text is blanks, an optional sign
\* and at least one digit.
IsIntLiteral(text) ==
    LET ds == Unsigned(Strip(text))
    IN  ds # <<>> /\ \A p \in 1..Len(ds) : ds[p] \in DigitChars

ParseInt(text) ==
    LET s == Strip(text)
        v == DecimalValue(Unsigned(s))
    IN  IF Head(s) = "-" THEN 0 - v ELSE v

----------------------------------------------------------------------------
(* The board                                                               *)

\* range(n): empty when n <= 0.
Range(n) == 0..(n - 1)

Cells(n) == Range(n) \X Range(n)

\* for i in range(n) for j in range(n): the cells in row-major order.
CellSeq(n) ==
    IF n <= 0 THEN <<>>
    ELSE [t \in 1..(n * n) |-> <<(t - 1) \div n, (t - 1) % n>>]

----------------------------------------------------------------------------
(* Constraint construction                                                 *)

\* y[ycell] >= x[xcell], one term on each side.
Linkage(ycell, xcell) ==
    [ycoef |-> 1, ycell |-> ycell, xs |-> <<xcell>>, sense |-> ">=", rhs |-> 0]

\* Variant of PlaceNQueensConstraint: the bound is off by one.
PlaceNQueensOffByOne(n) ==
    [ycoef |-> 0, ycell |-> <<0, 0>>, xs |-> CellSeq(n), sense |-> "==",
     rhs |-> n - 1]

\* _add_place_n_queens_constraint: quicksum of every x == n_dim.
PlaceNQueensConstraint(n) ==
    [ycoef |-> 0, ycell |-> <<0, 0>>, xs |-> CellSeq(n), sense |-> "==", rhs |-> n]

\* Variant of RcAttackConstraints: the column constraint indexes x[k][i]
\* instead of x[k][j].
RcAttackConstraintsWrongColumn(n) ==
    IF n <= 0 THEN <<>>
    ELSE [t \in 1..(2 * n * n * n) |->
            LET u == t - 1
                i == u \div (2 * n * n)
                j == (u \div (2 * n)) % n
                k == (u \div 2) % n
            IN  IF u % 2 = 0 THEN Linkage(<<i, j>>, <<i, k>>)
                ELSE Linkage(<<i, j>>, <<k, i>>)]

\* _add_rc_attack_constraints: for i, j, k the two constraints
\* y[i][j] >= x[i][k] and y[i][j] >= x[k][j], in that order.
RcAttackConstraints(n) ==
    IF n <= 0 THEN <<>>
    ELSE [t \in 1..(2 * n * n * n) |->
            LET u == t - 1
                i == u \div (2 * n * n)
                j == (u \div (2 * n)) % n
                k == (u \div 2) % n
            IN  IF u % 2 = 0 THEN Linkage(<<i, j>>, <<i, k>>)
                ELSE Linkage(<<i, j>>, <<k, j>>)]

\* Variant of DiagStep: the anti-diagonal test is missing.
DiagStepMainOnly(i, j, k, l) ==
    IF k - i = l - j THEN <<Linkage(<<i, j>>, <<k, l>>)>> ELSE <<>>

\* The body of the innermost loop of _add_diag_attack_constraints: two
\* independent tests, each adding one constraint.
DiagStep(i, j, k, l) ==
    (IF k - i = l - j THEN <<Linkage(<<i, j>>, <<k, l>>)>> ELSE <<>>)
    \o (IF k - i = j - l THEN <<Linkage(<<i, j>>, <<k, l>>)>> ELSE <<>>)

RECURSIVE DiagLoop(_, _, _)
\* Iterations lo .. hi - 1 of the four nested loops, in order; iteration u
\* has i, j, k, l as the base-n digits of u.  The range is halved so that the
\* evaluation stays shallow.
DiagLoop(n, lo, hi) ==
    IF hi <= lo THEN <<>>
    ELSE IF hi = lo + 1
         THEN DiagStep(lo \div (n * n * n), (lo \div (n * n)) % n,
                       (lo \div n) % n, lo % n)
         ELSE LET mid == (lo + hi) \div 2
              IN  DiagLoop(n, lo, mid) \o DiagLoop(n, mid, hi)

\* _add_diag_attack_constraints
DiagAttackConstraints(n) == IF n <= 0 THEN <<>> ELSE DiagLoop(n, 0, n * n * n * n)

\* Variant of AttackerSet: the set starts empty instead of with the cell.
AttackerSetNoSelf(n, i, j) ==
    SelectSeq(CellSeq(n), LAMBDA c : c[1] = i /\ c[2] # j)
    \o SelectSeq(CellSeq(n), LAMBDA c : c[2] = j /\ c[1] # i)
    \o SelectSeq(CellSeq(n),
                 LAMBDA c : /\ ~(i = c[1] \/ j = c[2])
                            /\ (c[1] - i = c[2] - j \/ c[1] - i = j - c[2]))

\* Variant of AttackerSet: the anti-diagonal test is missing.
AttackerSetMainDiagonalOnly(n, i, j) ==
    <<<<i, j>>>>
    \o SelectSeq(CellSeq(n), LAMBDA c : c[1] = i /\ c[2] # j)
    \o SelectSeq(CellSeq(n), LAMBDA c : c[2] = j /\ c[1] # i)
    \o SelectSeq(CellSeq(n),
                 LAMBDA c : /\ ~(i = c[1] \/ j = c[2])
                            /\ c[1] - i = c[2] - j)

\* Variant of AttackerSet: the diagonal scan does not skip row i and column j.
AttackerSetNoSkip(n, i, j) ==
    <<<<i, j>>>>
    \o SelectSeq(CellSeq(n), LAMBDA c : c[1] = i /\ c[2] # j)
    \o SelectSeq(CellSeq(n), LAMBDA c : c[2] = j /\ c[1] # i)
    \o SelectSeq(CellSeq(n),
                 LAMBDA c : c[1] - i = c[2] - j \/ c[1] - i = j - c[2])

\* attacker_set of _add_constraints_disjunctive for cell (i, j): the cell, the
\* rest of its row, the rest of its column, then the diagonal cells found by
\* the k, l scan that skips row i and column j.
AttackerSet(n, i, j) ==
    <<<<i, j>>>>
    \o SelectSeq(CellSeq(n), LAMBDA c : c[1] = i /\ c[2] # j)
    \o SelectSeq(CellSeq(n), LAMBDA c : c[2] = j /\ c[1] # i)
    \o SelectSeq(CellSeq(n),
                 LAMBDA c : /\ ~(i = c[1] \/ j = c[2])
                            /\ (c[1] - i = c[2] - j \/ c[1] - i = j - c[2]))

\* big_m * y[i][j] >= quicksum(x[k][l] for (k, l) in attacker_set)
BigMConstraint(n, i, j) ==
    LET attacker_set == AttackerSet(n, i, j)
        big_m == Len(attacker_set)
    IN  [ycoef |-> big_m, ycell |-> <<i, j>>, xs |-> attacker_set,
         sense |-> ">=", rhs |-> 0]

\* The i, j loop of _add_constraints_disjunctive.
DisjunctiveAttackConstraints(n) ==
    IF n <= 0 THEN <<>>
    ELSE [t \in 1..(n * n) |-> BigMConstraint(n, CellSeq(n)[t][1], CellSeq(n)[t][2])]

\* Variant of ObjectiveTerms: the loops stop one row and one column short.
ObjectiveTermsShort(n) == CellSeq(n - 1)

\* _add_objective: quicksum of y[i][j] for i, j in range(n_dim), minimised.
ObjectiveTerms(n) == CellSeq(n)

\* _add_constraints: the cardinality constraint, then the row and column
\* linkages, then the diagonal linkages.
PerAttackerConstraints(n) ==
    <<PlaceNQueensConstraint(n)>> \o RcAttackConstraints(n) \o DiagAttackConstraints(n)

\* _add_constraints_disjunctive: the cardinality constraint, then one
\* aggregated constraint per cell.
DisjunctiveConstraints(n) ==
    <<PlaceNQueensConstraint(n)>> \o DisjunctiveAttackConstraints(n)

----------------------------------------------------------------------------
(* The binary program the solver receives                                  *)

\* quicksum(x[c] for c in xs) under the placement x (a set of cells).
SumX(xs, x) == Cardinality({p \in 1..Len(xs) : xs[p] \in x})

\* Does constraint con hold when the cells of x have x = 1 and y[con.ycell] = v?
HoldsAt(con, x, v) ==
    IF con.sense = "==" THEN SumX(con.xs, x) = con.rhs
    ELSE con.ycoef * v >= SumX(con.xs, x)

\* Is the 0/1 assignment (x, y) feasible for the constraint list cons?
Feasible(cons, x, y) ==
    \A p \in 1..Len(cons) :
        HoldsAt(cons[p], x, IF cons[p].ycell \in y THEN 1 ELSE 0)

\* Every feasible 0/1 assignment over the declared variables.  Each ">="
\* constraint mentions one y only, so the y variables are decided cell by
\* cell: Must holds the cells whose y cannot be 0, and a placement is
\* infeasible when some y can be neither 0 nor 1.
FeasibleSet(cons, xv, yv) ==
    LET eqs == {cons[p] : p \in {q \in 1..Len(cons) : cons[q].sense = "=="}}
        ges == {cons[p] : p \in {q \in 1..Len(cons) : cons[q].sense = ">="}}
        on(c) == {con \in ges : con.ycell = c}
        byCell == [c \in yv |-> on(c)]
        stray == {con \in ges : con.ycell \notin yv}
        okX(x) == /\ \A con \in eqs : HoldsAt(con, x, 0)
                  /\ \A con \in stray : HoldsAt(con, x, 0)
        xs == {x \in SUBSET xv : okX(x)}
        can(x, c, v) == \A con \in byCell[c] : HoldsAt(con, x, v)
        must(x) == {c \in yv : ~can(x, c, 0)}
        dead(x) == \E c \in yv : ~can(x, c, 0) /\ ~can(x, c, 1)
    IN  UNION {IF dead(x) THEN {}
               ELSE {[x |-> x, y |-> must(x) \cup free] :
                        free \in SUBSET {c \in yv : can(x, c, 0) /\ can(x, c, 1)}}
               : x \in xs}

\* The objective value of an assignment: the sum of y over the objective terms.
ObjValue(obj, y) == Cardinality({p \in 1..Len(obj) : obj[p] \in y})

\* The least objective value over a non-empty set of assignments.
MinObjective(obj, F) ==
    LET values == {ObjValue(obj, s.y) : s \in F}
    IN  CHOOSE m \in values : \A v \in values : m <= v

\* The assignments of F that attain the least objective value.
Optimal(obj, F) ==
    LET best == MinObjective(obj, F)
    IN  {s \in F : ObjValue(obj, s.y) = best}

----------------------------------------------------------------------------
(* main()                                                                  *)

Message(m, v) == [msg |-> m, val |-> v]

\* Statuses for which the solver's contract promises no assignment.
NoAssignmentStatuses == {"INFEASIBLE", "NO_SOLUTION_FOUND"}

Init ==
    /\ pc = "get_n"
    /\ out = Message("", 0)
    /\ line = <<>>
    /\ n_dim = 0
    /\ disjunctive = FALSE
    /\ x_vars = {}
    /\ y_vars = {}
    /\ constraints = <<>>
    /\ objective = <<>>
    /\ status = "LOADED"
    /\ hasSol = FALSE
    /\ solX = {}
    /\ solY = {}
    /\ printed = <<>>

\* One iteration of get_n's loop: prompt, read a line, int() it; a
\* ValueError prints the request and leaves n_dim alone.  The loop runs
\* again while n_dim == 0.
GetN ==
    /\ pc = "get_n"
    /\ \E l \in InputLines :
        /\ line' = l
        /\ IF IsIntLiteral(l)
           THEN /\ n_dim' = ParseInt(l)
                /\ out' = Message("N: ", 0)
           ELSE /\ n_dim' = n_dim
                /\ out' = Message("Please input an integer for N.", 0)
    /\ pc' = IF n_dim' = 0 THEN "get_n" ELSE "construct"
    /\ UNCHANGED <<disjunctive, x_vars, y_vars, constraints, objective,
                   status, hasSol, solX, solY, printed>>

\* NQueensBIP.__init__: an empty model.  The encoding flag is the caller's
\* choice (main passes False, the parameter's default is True).
Construct ==
    /\ pc = "construct"
    /\ \E d \in BOOLEAN : disjunctive' = d
    /\ x_vars' = {}
    /\ y_vars' = {}
    /\ pc' = "add_variables"
    /\ UNCHANGED <<out, line, n_dim, constraints, objective, status, hasSol,
                   solX, solY, printed>>

\* _add_variables, then configure_bip's dispatch on the encoding flag.
AddVariables ==
    /\ pc = "add_variables"
    /\ x_vars' = x_vars \cup Cells(n_dim)
    /\ y_vars' = y_vars \cup Cells(n_dim)
    /\ pc' = IF disjunctive THEN "add_constraints_disjunctive" ELSE "add_constraints"
    /\ UNCHANGED <<out, line, n_dim, disjunctive, constraints, objective,
                   status, hasSol, solX, solY, printed>>

AddConstraints ==
    /\ pc = "add_constraints"
    /\ constraints' = constraints \o PerAttackerConstraints(n_dim)
    /\ pc' = "add_objective"
    /\ UNCHANGED <<out, line, n_dim, disjunctive, x_vars, y_vars, objective,
                   status, hasSol, solX, solY, printed>>

AddConstraintsDisjunctive ==
    /\ pc = "add_constraints_disjunctive"
    /\ constraints' = constraints \o DisjunctiveConstraints(n_dim)
    /\ pc' = "add_objective"
    /\ UNCHANGED <<out, line, n_dim, disjunctive, x_vars, y_vars, objective,
                   status, hasSol, solX, solY, printed>>

AddObjective ==
    /\ pc = "add_objective"
    /\ objective' = ObjectiveTerms(n_dim)
    /\ pc' = "optimize"
    /\ UNCHANGED <<out, line, n_dim, disjunctive, x_vars, y_vars, constraints,
                   status, hasSol, solX, solY, printed>>

\* model.optimize() proves an assignment optimal.
OptimizeOptimal ==
    /\ pc = "optimize"
    /\ LET F == FeasibleSet(constraints, x_vars, y_vars)
       IN  /\ F # {}
           /\ \E s \in Optimal(objective, F) :
                /\ solX' = s.x
                /\ solY' = s.y
    /\ status' = "OPTIMAL"
    /\ hasSol' = TRUE
    /\ pc' = "solve_print"
    /\ UNCHANGED <<out, line, n_dim, disjunctive, x_vars, y_vars, constraints,
                   objective, printed>>

\* model.optimize() stops at TimeLimit holding an incumbent: any feasible
\* assignment.
OptimizeTimeLimit ==
    /\ pc = "optimize"
    /\ \E s \in FeasibleSet(constraints, x_vars, y_vars) :
            /\ solX' = s.x
            /\ solY' = s.y
    /\ status' = "TIME_LIMIT"
    /\ hasSol' = TRUE
    /\ pc' = "solve_print"
    /\ UNCHANGED <<out, line, n_dim, disjunctive, x_vars, y_vars, constraints,
                   objective, printed>>

\* model.optimize() stops at TimeLimit before any assignment was found.
OptimizeTimeLimitEmpty ==
    /\ pc = "optimize"
    /\ status' = "TIME_LIMIT"
    /\ hasSol' = FALSE
    /\ pc' = "solve_print"
    /\ UNCHANGED <<out, line, n_dim, disjunctive, x_vars, y_vars, constraints,
                   objective, solX, solY, printed>>

\* model.optimize() proves that no assignment satisfies the constraints.
OptimizeInfeasible ==
    /\ pc = "optimize"
    /\ FeasibleSet(constraints, x_vars, y_vars) = {}
    /\ status' = "INFEASIBLE"
    /\ hasSol' = FALSE
    /\ pc' = "solve_print"
    /\ UNCHANGED <<out, line, n_dim, disjunctive, x_vars, y_vars, constraints,
                   objective, solX, solY, printed>>

\* model.optimize() gives up with neither an assignment nor a proof.
OptimizeNoSolution ==
    /\ pc = "optimize"
    /\ status' = "NO_SOLUTION_FOUND"
    /\ hasSol' = FALSE
    /\ pc' = "solve_print"
    /\ UNCHANGED <<out, line, n_dim, disjunctive, x_vars, y_vars, constraints,
                   objective, solX, solY, printed>>

\* Variant of SolvePrint: the summary line is skipped, instead of failing,
\* when the solver holds no objective value.
SolvePrintSkipping ==
    /\ pc = "solve_print"
    /\ out' = IF hasSol THEN Message("Solved NQueens BIP", ObjValue(objective, solY))
              ELSE out
    /\ pc' = "solve_status"
    /\ UNCHANGED <<line, n_dim, disjunctive, x_vars, y_vars, constraints,
                   objective, status, hasSol, solX, solY, printed>>

\* solve(), after optimize() returned: the summary line reads model.ObjVal,
\* an attribute the solver refuses (AttributeError) while it holds no
\* assignment.
SolvePrint ==
    /\ pc = "solve_print"
    /\ IF hasSol
       THEN /\ out' = Message("Solved NQueens BIP", ObjValue(objective, solY))
            /\ pc' = "solve_status"
       ELSE /\ out' = out
            /\ pc' = "crashed"
    /\ UNCHANGED <<line, n_dim, disjunctive, x_vars, y_vars, constraints,
                   objective, status, hasSol, solX, solY, printed>>

\* solve(): the message chosen by the status.
SolveStatus ==
    /\ pc = "solve_status"
    /\ out' = IF status = "OPTIMAL" THEN Message("Solution is optimal.", 0)
              ELSE IF status = "TIME_LIMIT" THEN Message("Optimality gap:", 0)
              ELSE Message("No solution found.", 0)
    /\ pc' = "print_solution"
    /\ UNCHANGED <<line, n_dim, disjunctive, x_vars, y_vars, constraints,
                   objective, status, hasSol, solX, solY, printed>>

\* _print_grid: one row of text per board row, `one` where the variable's
\* value exceeds 0.5 and `default` elsewhere.
PrintGrid(n, ones, default, one) ==
    [r \in 1..n |-> [c \in 1..n |-> IF <<r - 1, c - 1>> \in ones THEN one ELSE default]]

\* print_solution reads the X attribute of every variable, which the solver
\* refuses while it holds no assignment.
PrintSolution ==
    /\ pc = "print_solution"
    /\ IF hasSol \/ n_dim <= 0
       THEN /\ printed' = <<PrintGrid(n_dim, solX, "X", "0"),
                            PrintGrid(n_dim, solY, "0", "X")>>
            /\ out' = Message("Attackable (0 = safe, X = attackable):", 0)
            /\ pc' = "done"
       ELSE /\ printed' = printed
            /\ out' = Message("Placement (0 = queen placed):", 0)
            /\ pc' = "crashed"
    /\ UNCHANGED <<line, n_dim, disjunctive, x_vars, y_vars, constraints,
                   objective, status, hasSol, solX, solY>>

Next ==
    \/ GetN
    \/ Construct
    \/ AddVariables
    \/ AddConstraints
    \/ AddConstraintsDisjunctive
    \/ AddObjective
    \/ OptimizeOptimal
    \/ OptimizeTimeLimit
    \/ OptimizeTimeLimitEmpty
    \/ OptimizeInfeasible
    \/ OptimizeNoSolution
    \/ SolvePrint
    \/ SolveStatus
    \/ PrintSolution

Spec == Init /\ [][Next]_vars

----------------------------------------------------------------------------
(* Reference notions the properties are stated against                     *)

Abs(a) == IF a < 0 THEN 0 - a ELSE a

\* A queen on q reaches c: same cell, same row, same column or same diagonal.
Attacks(q, c) ==
    \/ q[1] = c[1]
    \/ q[2] = c[2]
    \/ Abs(q[1] - c[1]) = Abs(q[2] - c[2])

\* A(i, j): the cells whose occupancy makes cell c attacked.
AttackerCells(n, c) == {a \in Cells(n) : Attacks(a, c)}

\* The on-board cells other than c on the two diagonals through c.
DiagonalCells(n, c) ==
    {a \in Cells(n) : a # c /\ Abs(a[1] - c[1]) = Abs(a[2] - c[2])}

\* Every way to put n queens on distinct cells of the n x n board.
Placements(n) == {P \in SUBSET Cells(n) : Cardinality(P) = n}

\* The cells a placement attacks.
AttackableCells(n, P) == {c \in Cells(n) : \E q \in P : Attacks(q, c)}

\* Exhaustive search: the fewest attackable cells over all placements.
BruteForceMin(n) ==
    LET counts == {Cardinality(AttackableCells(n, P)) : P \in Placements(n)}
    IN  CHOOSE m \in counts : \A v \in counts : m <= v

BruteForceTable == [n \in 1..MaxN |-> BruteForceMin(n)]

\* The optimum of the program configure_bip builds for size n, encoding d.
EncodingOptimum(n, d) ==
    MinObjective(ObjectiveTerms(n),
                 FeasibleSet(IF d THEN DisjunctiveConstraints(n)
                             ELSE PerAttackerConstraints(n),
                             Cells(n), Cells(n)))

OptimumTable == [n \in 1..MaxN |-> [d \in BOOLEAN |-> EncodingOptimum(n, d)]]

\* optimize() has returned.
Returned == pc \in {"solve_print", "solve_status", "print_solution", "done", "crashed"}

\* configure_bip has finished.
Configured == pc \notin {"get_n", "construct", "add_variables", "add_constraints",
                         "add_constraints_disjunctive", "add_objective"}

\* The attack-linkage constraints of the built model.
LinkageConstraints == {constraints[p] : p \in 2..Len(constraints)}

NoDuplicates(seq) == \A p, q \in 1..Len(seq) : seq[p] = seq[q] => p = q

TypeOK ==
    /\ pc \in {"get_n", "construct", "add_variables", "add_constraints",
               "add_constraints_disjunctive", "add_objective", "optimize",
               "solve_print", "solve_status", "print_solution", "done", "crashed"}
    /\ n_dim \in -1..MaxN
    /\ disjunctive \in BOOLEAN
    /\ status \in {"LOADED", "OPTIMAL", "TIME_LIMIT", "INFEASIBLE", "NO_SOLUTION_FOUND"}
    /\ hasSol \in BOOLEAN
    /\ solX \subseteq x_vars
    /\ solY \subseteq y_vars

\* Whatever assignment the solver holds satisfies every constraint of the model.
SolutionFeasible == hasSol => Feasible(constraints, solX, solY)

----------------------------------------------------------------------------
(* Properties                                                              *)

\* C1: for every board size N >= 1 the optimum of the built model is the same
\* under both encodings: the objective value the solver proves optimal on the
\* model as built equals the optimum of the model the other encoding builds.
C1_EncodingEquivalence ==
    (Returned /\ status = "OPTIMAL" /\ n_dim >= 1)
        => ObjValue(objective, solY) = OptimumTable[n_dim][~disjunctive]

C1_Witness ==
    /\ pc = "done" /\ status = "OPTIMAL" /\ n_dim = 3 /\ ~disjunctive
    /\ ObjValue(objective, solY) = 9

C3_LinkageSound ==
    hasSol =>
        \A c \in Cells(n_dim) : \A a \in AttackerCells(n_dim, c) :
            a \in solX => c \in solY

C3_Witness ==
    /\ hasSol /\ status = "TIME_LIMIT" /\ disjunctive /\ n_dim = 3
    /\ <<0, 2>> \in solX /\ <<2, 0>> \in solY /\ <<0, 0>> \in solX

\* C4: under either encoding the feasible placements are exactly the
\* placements with N queens: every feasible assignment has N ones in x, and
\* every grid with exactly N ones is the x part of a feasible assignment.
C4_ExactlyNQueens ==
    /\ hasSol => Cardinality(solX) = n_dim
    /\ (pc = "optimize" /\ n_dim >= 1)
         => {s.x : s \in FeasibleSet(constraints, x_vars, y_vars)} = Placements(n_dim)

C4_Witness ==
    /\ hasSol /\ n_dim = 3 /\ ~disjunctive
    /\ solX = {<<1, 0>>, <<1, 1>>, <<1, 2>>}

\* C5 as stated: for N = 1 the optimal objective value is 0 under both
\* encodings.
C5_Original ==
    (Returned /\ status = "OPTIMAL" /\ n_dim = 1) => ObjValue(objective, solY) = 0

\* C5 amended: for N = 1 the optimal objective value is 1 under both
\* encodings (the single queen's own cell counts as attacked).
C5_Amended ==
    (Returned /\ status = "OPTIMAL" /\ n_dim = 1)
        => /\ ObjValue(objective, solY) = 1
           /\ solX = {<<0, 0>>}
           /\ solY = {<<0, 0>>}

C5_Witness == pc = "done" /\ status = "OPTIMAL" /\ n_dim = 1 /\ disjunctive

\* C6: get_n re-prompts on every non-integer line and on every non-positive
\* integer, so once it has returned the last line read is an integer
\* literal and the returned value is that integer and at least 1.
C6_Claim ==
    pc # "get_n" => /\ IsIntLiteral(line)
                    /\ n_dim = ParseInt(line)
                    /\ n_dim >= 1

\* C7: when optimize() ends with INFEASIBLE or NO_SOLUTION_FOUND, solve()
\* does not fail on an unavailable solver value and goes on to report
\* "No solution found.".
C7_Claim ==
    (Returned /\ status \in NoAssignmentStatuses)
        => /\ pc # "crashed"
           /\ pc \in {"print_solution", "done"} => out.msg = "No solution found."

\* C8: print_solution is invoked only after optimize() returned OPTIMAL, or
\* TIME_LIMIT with an incumbent; never when the solve produced no assignment.
C8_PresenterAfterSolve ==
    (pc = "print_solution" \/ printed # <<>>)
        => /\ hasSol
           /\ status \in {"OPTIMAL", "TIME_LIMIT"}

C8_Witness ==
    /\ pc = "done" /\ status = "TIME_LIMIT" /\ n_dim = 2
    /\ printed = <<PrintGrid(2, solX, "X", "0"), PrintGrid(2, solY, "0", "X")>>

\* C9: in the disjunctive encoding every cell gets one constraint whose
\* attacker set has no duplicate cell, whose big-M coefficient is the set's
\* size, and that size is 1 + (N-1) + (N-1) + the number of other on-board
\* cells on the two diagonals through the cell, at most 1 + 2(N-1) + 2(N-1).
C9_AttackerSetSize ==
    (disjunctive /\ Configured /\ n_dim >= 1)
        => /\ Len(constraints) = 1 + n_dim * n_dim
           /\ \A t \in 1..(n_dim * n_dim) :
                LET con == constraints[t + 1]
                    c == CellSeq(n_dim)[t]
                IN  /\ con.ycell = c
                    /\ NoDuplicates(con.xs)
                    /\ con.ycoef = Len(con.xs)
                    /\ Len(con.xs) = 1 + (n_dim - 1) + (n_dim - 1)
                                       + Cardinality(DiagonalCells(n_dim, c))
                    /\ Len(con.xs) <= 1 + 2 * (n_dim - 1) + 2 * (n_dim - 1)

C9_Witness ==
    /\ disjunctive /\ pc = "optimize" /\ n_dim = 3
    /\ constraints[6].ycoef = 9
    /\ constraints[2].ycoef = 7

\* The (attacked cell, attacking cell) pairs the per-attacker encoding links.
LinkedPairs == {<<con.ycell, con.xs[1]>> : con \in LinkageConstraints}

\* C10 as stated: in the per-attacker encoding the constraints
\* y[i][j] >= x[k][l] added for a cell are exactly those for the OTHER cells
\* sharing its row, column or a diagonal; none for the cell itself.
C10_Original ==
    (~disjunctive /\ Configured /\ n_dim >= 1)
        => LinkedPairs = {<<c, a>> \in Cells(n_dim) \X Cells(n_dim) :
                            a # c /\ Attacks(a, c)}

\* C10 amended: the constraints y[i][j] >= x[k][l] added for a cell are
\* exactly those for the cells of A(i, j): the cell itself and the other
\* cells sharing its row, column or a diagonal; none for a cell sharing no
\* line with it.
C10_Amended ==
    (~disjunctive /\ Configured /\ n_dim >= 1)
        => /\ \A con \in LinkageConstraints :
                con.sense = ">=" /\ con.ycoef = 1 /\ Len(con.xs) = 1
           /\ LinkedPairs = {<<c, a>> \in Cells(n_dim) \X Cells(n_dim) : Attacks(a, c)}

C10_Witness ==
    /\ ~disjunctive /\ pc = "optimize" /\ n_dim = 3
    /\ <<<<1, 1>>, <<1, 1>>>> \in LinkedPairs
    /\ <<<<0, 0>>, <<2, 2>>>> \in LinkedPairs
    /\ <<<<0, 0>>, <<1, 2>>>> \notin LinkedPairs

====
